---- MODULE Spec2Model ----
(***************************************************************************)
(* The chat search session of the movie discovery front end               *)
(* (ChatInterface): one query session with its paginated result batch,    *)
(* the /api/search requests in flight, the duplicate-suppression key and  *)
(* the infinite-scroll observer.                                          *)
(***************************************************************************)
EXTENDS Integers, Sequences, FiniteSets, TLC

(* ------------------------------ bounds --------------------------------- *)

\* Requests the session may send in one run.
MaxRequests == 3

(* --------------------------- program constants -------------------------- *)

\* size: 20 in the request body, and the offset step.
PageSize == 20

(* ------------------------------ inputs ---------------------------------- *)

\* Query texts, as sequences of characters.
Inputs == {<< >>, <<" ">>, <<"a">>, <<"b">>}
\* Filter sets the user can choose: 0 is the empty filter set {}.
Filters == {0, 1}
\* Lengths of the pages the backend returns: empty, short (last) and full.
PageLens == {0, PageSize \div 4, PageSize}
FailKinds == {"status", "errorBody", "network"}

NoKey == << >>

VARIABLES
    messages,         \* Message[]: the conversation; the last one holds the result batch
    isLoading,
    isLoadingMore,
    filters,
    currentQuery,
    currentOffset,
    hasMore,
    hasInitialized,   \* hasInitialized.current
    activeSearchRef,  \* activeSearchRef.current: NoKey or a search key
    inflight,         \* the fetch("/api/search") calls awaiting their response
    netCount,         \* number of fetch("/api/search") calls made so far
    intersecting,     \* whether the scroll sentinel lies in the viewport
    obsActive,        \* the infinite-scroll effect has an observer on the sentinel
    obsPending,       \* that observer has a notification to deliver
    obsFilters,       \* the filters closed over by that observer's handleSearch
    \* History variables: they record what happened and drive nothing.
    sequential,       \* the session so far: one new query, then load-mores one at a
                      \* time, every request answered before the next, none failed
    trail,            \* while sequential: the lengths of the pages received, in order
    lastPageLen       \* length of the page of the latest successful response of the
                      \* session, NoPage before the first

\* The autocomplete box of MovieSearch.
VARIABLES
    inputValue,            \* the text of the combobox
    suggestions,           \* AutocompleteSuggestion[]
    isLoadingAutocomplete,
    timer,                 \* NoTimer, or the inputValue the pending setTimeout closed over
    idle,                  \* milliseconds since inputValue last changed, up to MaxIdle
    acInflight,            \* the fetch("/api/autocomplete") calls awaiting their response
    \* History variables.
    acLog,                 \* the value of every autocomplete request issued, in order
    acSince,               \* requests issued since inputValue last changed
    prevInput,             \* the inputValue before the last change
    edits                  \* number of changes of inputValue so far

acVars == <<inputValue, suggestions, isLoadingAutocomplete, timer, idle, acInflight,
            acLog, acSince, prevInput, edits>>

\* The TMDB result cache (table tmdb_cache) and its callers.
VARIABLES
    dbConfigured,          \* DATABASE_URL is set: getDb() returns a connection
    table,                 \* the rows of tmdb_cache
    now,                   \* Date.now(), in milliseconds
    got                    \* the latest getCachedTMDBResult call: its arguments, its time
                           \* and what it returned

cacheVars == <<dbConfigured, table, now, got>>

\* One fetchFromTMDB call of a TMDB route.
VARIABLES
    fpc,                   \* "idle", "request" (awaiting axios.get), "wait" (in the retry
                           \* delay), "returned" or "thrown"
    variant,               \* the route whose fetchFromTMDB runs: "poster" or "lookup"
    retryCount,
    outcome,               \* the value returned or the error thrown
    \* History variables.
    errors,                \* the error of every failed attempt of this call, in order
    waits                  \* the delay of every retry of this call, in order

fetchVars == <<fpc, variant, retryCount, outcome, errors, waits>>

\* One POST request to /api/tmdb/poster.
VARIABLES
    pc,                    \* "idle", "cache", "fetch", "write" or "done"
    body,                  \* the request body: query and year
    response,              \* NextResponse.json(...): status and body
    \* History variables.
    cacheRead,             \* "none", "hit", "miss" or "failed"
    cacheWrite             \* "none", "done" or "failed"

postVars == <<pc, body, response, cacheRead, cacheWrite>>

\* One enrichSearchResultsWithTMDB call.
VARIABLES
    searchHits,            \* the argument hits
    phase,                 \* "called", "awaiting" (in Promise.all) or "returned"
    pending,               \* positions in hitsNeedingLookup whose searchTMDB is outstanding
    enriched,              \* position in hitsNeedingLookup -> what its
                           \* enrichSearchHitWithTMDB resolved to, for the settled ones
    output,                \* the list returned
    \* History variables.
    order,                 \* the positions in hitsNeedingLookup in the order they settled
    lookups                \* position in hits -> number of searchTMDB calls made for it

enrichVars == <<searchHits, phase, pending, enriched, output, order, lookups>>

\* One HydratedMovieCard of the grid that renders the hits.
VARIABLES
    card,                  \* the position in hits of the card's movie, 0 before it mounts
    cardMounted,           \* isMounted of the effect run
    cardTmdbData,          \* the tmdbData state
    cardIsLoading,         \* the isLoading state
    cardAwaiting,          \* whether the effect's searchTMDB call is outstanding
    \* History variable.
    cardLookups            \* number of searchTMDB calls the card made

hydrateVars == <<card, cardMounted, cardTmdbData, cardIsLoading, cardAwaiting, cardLookups>>

\* One POST request to /api/search or /api/autocomplete.
VARIABLES
    route,                 \* "none", "search" or "autocomplete"
    routeBody,             \* what request.json() gives
    routePc,               \* "idle", "backend" (awaiting apiClient.post) or "done"
    routeResponse,         \* NextResponse.json(...): status and body
    \* History variable.
    backendCalls           \* number of apiClient.post calls made for the request

routeVars == <<route, routeBody, routePc, routeResponse, backendCalls>>

\* Two cacheTMDBResult calls running at once.
VARIABLES
    writers                \* call -> its arguments, its position and what its select saw

raceVars == <<writers>>

\* One MovieCard.
VARIABLES
    cardAlive,             \* the component is mounted
    mediaType,             \* movie.media_type
    isHovered,             \* the isHovered prop
    hoverTimeout,          \* whether the 400ms timer of handleMouseEnter is pending
    metadata,              \* the metadata state
    isLoadingMetadata,
    metadataFetched,
    details,               \* the detail requests not yet answered: the isMounted flag of
                           \* the effect run that sent each, and the mount it belongs to
    liveEffect,            \* position in details of the request whose effect run is the
                           \* current one (its cleanup has not run), 0 if none
    effectDeps,            \* the dependency values the effect last ran with
    \* History variables.
    mounts,                \* number of times the card has mounted
    lastDetails            \* the last answered request: "ok" or "failed" ("none" before),
                           \* and the mount that sent it

movieCardVars == <<cardAlive, mediaType, isHovered, hoverTimeout, metadata, isLoadingMetadata,
                   metadataFetched, details, liveEffect, effectDeps, mounts, lastDetails>>

sessionVars == <<messages, isLoading, isLoadingMore, filters, currentQuery, currentOffset,
                 hasMore, hasInitialized, activeSearchRef, inflight, netCount,
                 intersecting, obsActive, obsPending, obsFilters,
                 sequential, trail, lastPageLen>>

vars == <<sessionVars, acVars, cacheVars, fetchVars, postVars, enrichVars, hydrateVars, routeVars, raceVars, movieCardVars>>

\* What the actions of one component leave unchanged.
besideSession == <<acVars, cacheVars, fetchVars, postVars, enrichVars, hydrateVars, routeVars, raceVars, movieCardVars>>
besideAutocomplete == <<sessionVars, cacheVars, fetchVars, postVars, enrichVars, hydrateVars, routeVars, raceVars, movieCardVars>>
besideCache == <<sessionVars, acVars, fetchVars, postVars, enrichVars, hydrateVars, routeVars, raceVars, movieCardVars>>
besideServer == <<sessionVars, acVars, enrichVars, hydrateVars, routeVars, raceVars, movieCardVars>>
besideEnrich == <<sessionVars, acVars, cacheVars, fetchVars, postVars, hydrateVars, routeVars, raceVars, movieCardVars>>
besideHydrate == <<sessionVars, acVars, cacheVars, fetchVars, postVars, enrichVars, routeVars, raceVars, movieCardVars>>
besideRoute == <<sessionVars, acVars, cacheVars, fetchVars, postVars, enrichVars, hydrateVars, raceVars, movieCardVars>>
besideRace == <<sessionVars, acVars, fetchVars, postVars, enrichVars, hydrateVars, routeVars, movieCardVars>>
besideMovieCard == <<sessionVars, acVars, cacheVars, fetchVars, postVars, enrichVars, hydrateVars, routeVars, raceVars>>

NoPage == 0 - 1

NoTimer == <<"none">>

\* getCachedTMDBResult returning null.
Absent == [absent |-> TRUE]

NoCall == [none |-> TRUE]

\* An empty tmdb_cache, no call made.
CacheInit ==
    /\ table = {}
    /\ now = 0
    /\ got = NoCall

\* No fetchFromTMDB call made.
FetchInit ==
    /\ fpc = "idle"
    /\ variant = "poster"
    /\ retryCount = 0
    /\ outcome = Absent
    /\ errors = << >>
    /\ waits = << >>

NoBody == [none |-> TRUE]
NoResponse == [none |-> TRUE]

\* No request received.
PostInit ==
    /\ pc = "idle"
    /\ body = NoBody
    /\ response = NoResponse
    /\ cacheRead = "none"
    /\ cacheWrite = "none"

\* enrichSearchResultsWithTMDB([]) returned.
EnrichInit ==
    /\ searchHits = << >>
    /\ phase = "returned"
    /\ pending = {}
    /\ enriched = << >>
    /\ output = << >>
    /\ order = << >>
    /\ lookups = << >>

\* No HydratedMovieCard is mounted; the useState initial values.
HydrateInit ==
    /\ card = 0
    /\ cardMounted = FALSE
    /\ cardTmdbData = <<"null">>
    /\ cardIsLoading = TRUE
    /\ cardAwaiting = FALSE
    /\ cardLookups = 0

\* No request received by /api/search or /api/autocomplete.
RouteInit ==
    /\ route = "none"
    /\ routeBody = NoBody
    /\ routePc = "idle"
    /\ routeResponse = NoResponse
    /\ backendCalls = 0

\* No cacheTMDBResult call is running.
RaceInit == writers = << >>

\* No MovieCard is mounted.
MovieCardInit ==
    /\ cardAlive = FALSE
    /\ mediaType = "movie"
    /\ isHovered = FALSE
    /\ hoverTimeout = FALSE
    /\ metadata = <<"null">>
    /\ isLoadingMetadata = FALSE
    /\ metadataFetched = FALSE
    /\ details = << >>
    /\ liveEffect = 0
    /\ effectDeps = <<FALSE, FALSE, FALSE>>
    /\ mounts = 0
    /\ lastDetails = [outcome |-> "none", mount |-> 0]

\* MovieSearch as mounted: the useState initial values; the autocomplete effect
\* has run on the empty input and set no timer.
AutocompleteInit ==
    /\ inputValue = << >>
    /\ suggestions = << >>
    /\ isLoadingAutocomplete = FALSE
    /\ timer = NoTimer
    /\ idle = 0
    /\ acInflight = << >>
    /\ acLog = << >>
    /\ acSince = 0
    /\ prevInput = << >>
    /\ edits = 0

(* ------------------------------ helpers --------------------------------- *)

RECURSIVE TrimStart(_)
TrimStart(s) ==
    IF s # << >> /\ Head(s) = " " THEN TrimStart(Tail(s)) ELSE s

RECURSIVE TrimEnd(_)
TrimEnd(s) ==
    IF s # << >> /\ s[Len(s)] = " " THEN TrimEnd(SubSeq(s, 1, Len(s) - 1)) ELSE s

\* String.prototype.trim
Trim(s) == TrimEnd(TrimStart(s))

\* `${query}-${offset}-${JSON.stringify(filters)}`
SearchKey(query, offset, f) == <<query, offset, f>>

\* The backend's ranking for one query under one filter set: the hit at rank r.
\* A filter keeps a subsequence of the unfiltered ranking; pages of one ranking
\* at distinct offsets are disjoint.
QueryBase(query) == IF query = <<"a">> THEN 0 ELSE 1000
HitId(query, f, r) == QueryBase(query) + r * (f + 1)

\* data.hits of a successful response: n hits starting after `offset`.
Page(query, f, offset, n) == [i \in 1..n |-> HitId(query, f, offset + i)]

UserMessage(query) ==
    [type |-> "user", content |-> <<"query", query>>, hasMovies |-> FALSE, movies |-> << >>]

ResultMessage(query, hits) ==
    [type |-> "assistant", content |-> <<"found", query>>, hasMovies |-> TRUE, movies |-> hits]

ErrorMessage(kind) ==
    [type |-> "assistant", content |-> <<"error", kind>>, hasMovies |-> FALSE, movies |-> << >>]

Request(query, offset, append, replace, f) ==
    [query |-> query, offset |-> offset, append |-> append, replace |-> replace, filters |-> f]

\* The component's state as one value.
S == [messages |-> messages, isLoading |-> isLoading, isLoadingMore |-> isLoadingMore,
      filters |-> filters, currentQuery |-> currentQuery, currentOffset |-> currentOffset,
      hasMore |-> hasMore, hasInitialized |-> hasInitialized,
      activeSearchRef |-> activeSearchRef, inflight |-> inflight, netCount |-> netCount,
      intersecting |-> intersecting, obsActive |-> obsActive, obsPending |-> obsPending,
      obsFilters |-> obsFilters]

Commit(s) ==
    /\ messages' = s.messages
    /\ isLoading' = s.isLoading
    /\ isLoadingMore' = s.isLoadingMore
    /\ filters' = s.filters
    /\ currentQuery' = s.currentQuery
    /\ currentOffset' = s.currentOffset
    /\ hasMore' = s.hasMore
    /\ hasInitialized' = s.hasInitialized
    /\ activeSearchRef' = s.activeSearchRef
    /\ inflight' = s.inflight
    /\ netCount' = s.netCount
    /\ intersecting' = s.intersecting
    /\ obsActive' = s.obsActive
    /\ obsPending' = s.obsPending
    /\ obsFilters' = s.obsFilters

(* --------------------------- handleSearch ------------------------------- *)

\* StartNew without the assignment to activeSearchRef.current.
StartNewKeepsKey(s, query, searchKey) ==
    [s EXCEPT !.messages = <<UserMessage(query)>>,
              !.isLoading = TRUE,
              !.currentOffset = 0,
              !.hasMore = TRUE,
              !.currentQuery = query]

\* The state setters of a new query.
StartNew(s, query, searchKey) ==
    [s EXCEPT !.activeSearchRef = searchKey,
              !.messages = <<UserMessage(query)>>,
              !.isLoading = TRUE,
              !.currentOffset = 0,
              !.hasMore = TRUE,
              !.currentQuery = query]

\* The state setters of a filter change.
StartReplace(s, searchKey) ==
    [s EXCEPT !.activeSearchRef = searchKey,
              !.isLoading = TRUE,
              !.currentOffset = 0,
              !.hasMore = TRUE]

\* The state setters of a load-more.
StartAppend(s) == [s EXCEPT !.isLoadingMore = TRUE]

\* The duplicate check of handleSearch.
IsDuplicate(s, searchKey, append, replace) ==
    ~append /\ ~replace /\ s.activeSearchRef = searchKey

\* fetch("/api/search", ...)
Send(s, req) ==
    [s EXCEPT !.inflight = Append(@, req), !.netCount = @ + 1]

\* handleSearch up to its await; f is the filters value of the calling closure.
HandleSearch(s, query, offset, append, replace, f) ==
    IF Trim(query) = << >> THEN s
    ELSE LET searchKey == SearchKey(query, offset, f) IN
         IF IsDuplicate(s, searchKey, append, replace) THEN s
         ELSE LET started == IF ~append /\ ~replace THEN StartNew(s, query, searchKey)
                             ELSE IF replace THEN StartReplace(s, searchKey)
                             ELSE StartAppend(s)
              IN Send(started, Request(query, offset, append, replace, f))

LastMessage(s) == s.messages[Len(s.messages)]
ReplaceLast(s, m) == [s.messages EXCEPT ![Len(s.messages)] = m]

\* setMessages of the append branch.
AppendMovies(s, hits) ==
    IF Len(s.messages) > 0 /\ LastMessage(s).hasMovies
    THEN ReplaceLast(s, [LastMessage(s) EXCEPT !.movies = @ \o hits])
    ELSE s.messages

\* setMessages of the replace branch.
ReplaceMovies(s, query, hits) ==
    IF Len(s.messages) > 0 /\ LastMessage(s).type = "assistant" /\ LastMessage(s).hasMovies
    THEN ReplaceLast(s, [LastMessage(s) EXCEPT !.content = <<"found", query>>, !.movies = hits])
    ELSE s.messages

\* OnSuccess advancing the offset by the number of hits received.
OnSuccessOffsetByLength(s, req, hits) ==
    IF req.append
    THEN [s EXCEPT !.messages = AppendMovies(s, hits),
                   !.currentOffset = req.offset + Len(hits),
                   !.hasMore = (Len(hits) = PageSize)]
    ELSE IF req.replace
    THEN [s EXCEPT !.messages = ReplaceMovies(s, req.query, hits),
                   !.currentOffset = Len(hits),
                   !.hasMore = (Len(hits) = PageSize)]
    ELSE [s EXCEPT !.messages = Append(@, ResultMessage(req.query, hits)),
                   !.currentOffset = Len(hits),
                   !.hasMore = (Len(hits) = PageSize)]

\* The try block after a successful response carrying `hits`.
OnSuccess(s, req, hits) ==
    IF req.append
    THEN [s EXCEPT !.messages = AppendMovies(s, hits),
                   !.currentOffset = req.offset + PageSize,
                   !.hasMore = (Len(hits) = PageSize)]
    ELSE IF req.replace
    THEN [s EXCEPT !.messages = ReplaceMovies(s, req.query, hits),
                   !.currentOffset = PageSize,
                   !.hasMore = (Len(hits) = PageSize)]
    ELSE [s EXCEPT !.messages = Append(@, ResultMessage(req.query, hits)),
                   !.currentOffset = PageSize,
                   !.hasMore = (Len(hits) = PageSize)]

\* The catch block.
OnFailure(s, req, kind) ==
    IF ~req.append /\ ~req.replace
    THEN [s EXCEPT !.messages = Append(@, ErrorMessage(kind))]
    ELSE s

\* The finally block.
Finally(s, req) ==
    [s EXCEPT !.isLoading = FALSE,
              !.isLoadingMore = FALSE,
              !.activeSearchRef = IF ~req.append THEN NoKey ELSE @]

(* ----------------------- infinite-scroll effect ------------------------- *)

ObserverDeps(s) == <<s.currentQuery, s.currentOffset, s.hasMore, s.isLoadingMore>>

\* The sentinel <div ref={scrollObserverRef}> is rendered.
SentinelRendered(s) == Len(s.messages) # 0 /\ s.currentQuery # << >>

\* The effect body: a new observer on the sentinel, closing over this render.
ObserverEffect(s) ==
    LET on == s.currentQuery # << >> /\ s.hasMore /\ SentinelRendered(s) IN
    [s EXCEPT !.obsActive = on,
              !.obsPending = on,
              !.obsFilters = IF on THEN s.filters ELSE 0]

\* The render after a batch of state updates: the effect re-runs when its
\* dependencies changed.
Render(old, new) ==
    IF ObserverDeps(new) # ObserverDeps(old) THEN ObserverEffect(new) ELSE new

\* The requests an event sent: the tail of the in-flight list.
Sent(new) ==
    SubSeq(new.inflight, Len(new.inflight) - (new.netCount - netCount) + 1, Len(new.inflight))

IsNewQuery(req) == ~req.append /\ ~req.replace

\* The history variables after an event: ev is "call" for an event that calls
\* handleSearch, "fail" for a failed response and "ok" for a successful one
\* of n hits.
Record(new, ev, n) ==
    LET sent == Sent(new)
        startsNew == \E j \in 1..Len(sent) : IsNewQuery(sent[j])
        seq == IF ev = "fail" THEN FALSE
               ELSE IF sent = << >> THEN sequential
               ELSE IF Len(sent) = 1 /\ inflight = << >> /\ IsNewQuery(sent[1]) THEN TRUE
               ELSE IF Len(sent) = 1 /\ inflight = << >> /\ sent[1].append THEN sequential
               ELSE FALSE
    IN /\ sequential' = seq
       /\ trail' = IF ~seq \/ startsNew THEN << >>
                   ELSE IF ev = "ok" THEN Append(trail, n)
                   ELSE trail
       /\ lastPageLen' = IF startsNew THEN NoPage
                         ELSE IF ev = "ok" THEN n
                         ELSE lastPageLen

\* One event: its state updates are committed and rendered.
Step(new, ev, n) ==
    \E after \in {new} :
        /\ after.netCount <= MaxRequests
        /\ \E rendered \in {Render(S, after)} : Commit(rendered)
        /\ Record(after, ev, n)
        /\ UNCHANGED besideSession

(* ------------------------------ actions --------------------------------- *)

\* ChatInterface as constructed.
SessionInit ==
    /\ messages = << >>
    /\ isLoading = FALSE
    /\ isLoadingMore = FALSE
    /\ filters = 0
    /\ currentQuery = << >>
    /\ currentOffset = 0
    /\ hasMore = TRUE
    /\ hasInitialized = FALSE
    /\ activeSearchRef = NoKey
    /\ inflight = << >>
    /\ netCount = 0
    /\ intersecting \in BOOLEAN
    /\ obsActive = FALSE
    /\ obsPending = FALSE
    /\ obsFilters = 0
    /\ sequential = FALSE
    /\ trail = << >>
    /\ lastPageLen = NoPage

Init ==
    /\ SessionInit
    /\ AutocompleteInit
    /\ dbConfigured = TRUE /\ CacheInit
    /\ FetchInit /\ PostInit
    /\ EnrichInit
    /\ HydrateInit
    /\ MovieCardInit
    /\ RaceInit
    /\ RouteInit

\* The filters effect: re-run the search when filters change.
FiltersEffect(s) ==
    IF s.currentQuery # << >>
    THEN HandleSearch(s, s.currentQuery, 0, FALSE, TRUE, s.filters)
    ELSE s

\* The initialisation effect on mount, and the filters effect of the render
\* that follows its setFilters.
Mount(queryFromUrl, filtersFromUrl) ==
    /\ ~hasInitialized
    /\ LET s1 == [S EXCEPT !.hasInitialized = TRUE]
           s2 == HandleSearch(s1, queryFromUrl, 0, FALSE, FALSE, s1.filters)
           s3 == [s2 EXCEPT !.filters = filtersFromUrl]
       IN Step(FiltersEffect(s3), "call", 0)

\* handleSubmit
Submit(input) ==
    /\ hasInitialized
    /\ Step(HandleSearch(S, input, 0, FALSE, FALSE, filters), "call", 0)

\* FilterPanel's onFiltersChange={setFilters}, and the filters effect.
SetFilters(f) ==
    /\ hasInitialized
    /\ Step(FiltersEffect([S EXCEPT !.filters = f]), "call", 0)

\* The user scrolls the sentinel into or out of the viewport.
Scroll ==
    /\ hasInitialized
    /\ Step([S EXCEPT !.intersecting = ~@, !.obsPending = S.obsActive], "call", 0)

\* The IntersectionObserver callback.
ObserverCallback ==
    /\ hasInitialized
    /\ obsActive /\ obsPending
    /\ LET s1 == [S EXCEPT !.obsPending = FALSE] IN
       IF intersecting /\ ~isLoadingMore /\ hasMore
       THEN Step(HandleSearch(s1, currentQuery, currentOffset, TRUE, FALSE, obsFilters), "call", 0)
       ELSE Step(s1, "call", 0)

Remove(seq, i) == SubSeq(seq, 1, i - 1) \o SubSeq(seq, i + 1, Len(seq))

\* A response with status 2xx and no error field arrives for request i.
ResponseOk(i, n) ==
    /\ i \in 1..Len(inflight)
    /\ LET req == inflight[i]
           s1 == [S EXCEPT !.inflight = Remove(@, i)]
           hits == Page(req.query, req.filters, req.offset, n)
       IN Step(Finally(OnSuccess(s1, req, hits), req), "ok", n)

\* ResponseFail with the flags cleared on the success path only.
ResponseFailNoFinally(i, kind) ==
    /\ i \in 1..Len(inflight)
    /\ LET req == inflight[i]
           s1 == [S EXCEPT !.inflight = Remove(@, i)]
       IN Step(OnFailure(s1, req, kind), "fail", 0)

\* Request i fails: a non-2xx status, an error body or a rejected fetch.
ResponseFail(i, kind) ==
    /\ i \in 1..Len(inflight)
    /\ LET req == inflight[i]
           s1 == [S EXCEPT !.inflight = Remove(@, i)]
       IN Step(Finally(OnFailure(s1, req, kind), req), "fail", 0)

Next ==
    \/ \E q \in Inputs, f \in Filters : Mount(q, f)
    \/ \E q \in Inputs : Submit(q)
    \/ \E f \in Filters : SetFilters(f)
    \/ Scroll
    \/ ObserverCallback
    \/ \E i \in 1..MaxRequests, n \in PageLens : ResponseOk(i, n)
    \/ \E i \in 1..MaxRequests, k \in FailKinds : ResponseFail(i, k)

Spec == Init /\ [][Next]_vars

(* ------------------------------ claims ---------------------------------- *)

Superseded(req) == req.query # currentQuery \/ req.filters # filters

\* C2: a stale response never overwrites newer state. The successful response
\* of a superseded request leaves the result batch, the offset and hasMore
\* as they are.
StaleResponseDiscarded ==
    [][\A i \in 1..MaxRequests, n \in PageLens :
          (ResponseOk(i, n) /\ Superseded(inflight[i]))
              => UNCHANGED <<messages, currentOffset, hasMore>>]_vars

\* C3: a load-more request is sent only from the ready state: nothing in
\* flight (no new-query, filter-change or load-more request), no loading
\* flag set, and hasMore true.
LoadMoreOnlyWhenReady ==
    [][\A j \in 1..Len(Sent(S')) :
          Sent(S')[j].append
              => (inflight = << >> /\ ~isLoading /\ ~isLoadingMore /\ hasMore)]_vars

\* C4: no message's result batch holds the same hit id twice.
NoDuplicateHits ==
    \A k \in 1..Len(messages) :
        \A i, j \in 1..Len(messages[k].movies) :
            i # j => messages[k].movies[i] # messages[k].movies[j]

\* C5: with nothing in flight after a successful search of the session, hasMore
\* tells whether the latest page received held exactly PageSize hits.
HasMoreMatchesLastPage ==
    (inflight = << >> /\ lastPageLen # NoPage) => (hasMore = (lastPageLen = PageSize))

\* The pages of one ranking fetched at offsets 0, PageSize, 2*PageSize, ...
\* with the given lengths, concatenated in order.
RECURSIVE Pages(_, _, _)
Pages(query, f, lens) ==
    IF lens = << >> THEN << >>
    ELSE Pages(query, f, SubSeq(lens, 1, Len(lens) - 1))
             \o Page(query, f, PageSize * (Len(lens) - 1), lens[Len(lens)])

\* C6: the pagination scenario. In a session of one new query followed by
\* load-mores one at a time, after k successful pages the offset is
\* PageSize * k, the batch is those k pages in order, hasMore tells whether the
\* last page was full, and a load-more in flight fetches at the current offset.
PaginationScenario ==
    sequential =>
        /\ Len(inflight) <= 1
        /\ (inflight = << >> /\ trail # << >>) =>
               /\ currentOffset = PageSize * Len(trail)
               /\ hasMore = (trail[Len(trail)] = PageSize)
               /\ LastMessage(S).hasMovies
               /\ LastMessage(S).movies = Pages(currentQuery, filters, trail)
        /\ (Len(inflight) = 1 /\ inflight[1].append) =>
               /\ inflight[1].offset = currentOffset
               /\ currentOffset = PageSize * Len(trail)
               /\ inflight[1].query = currentQuery
               /\ inflight[1].filters = filters

\* C6 witness: two full pages and a short one: offset 3 * PageSize, all their
\* hits accumulated, hasMore false.
PaginationWitness ==
    /\ sequential
    /\ inflight = << >>
    /\ trail = <<PageSize, PageSize, PageSize \div 4>>
    /\ currentOffset = 3 * PageSize
    /\ ~hasMore
    /\ Len(LastMessage(S).movies) = 2 * PageSize + PageSize \div 4

\* C7: when the request of a new query fails, the session is left with an
\* error message as its last message, no result batch, isLoading false and
\* the active key cleared.
NewQueryFailureEndsInError ==
    [][\A i \in 1..MaxRequests, k \in FailKinds :
          (ResponseFail(i, k) /\ IsNewQuery(inflight[i]))
              => /\ messages'[Len(messages')] = ErrorMessage(k)
                 /\ \A j \in 1..Len(messages') : ~messages'[j].hasMovies
                 /\ ~isLoading'
                 /\ activeSearchRef' = NoKey]_vars

\* The observer is about to send a load-more request on its own.
AutoLoadMore ==
    obsActive /\ obsPending /\ intersecting /\ ~isLoadingMore /\ hasMore

\* C8: a failed load-more leaves the batch and the offset as they are, adds
\* no message, clears isLoadingMore, and leaves no load-more about to be sent
\* without a user action.
FailedLoadMoreStops ==
    [][\A i \in 1..MaxRequests, k \in FailKinds :
          (ResponseFail(i, k) /\ inflight[i].append)
              => /\ UNCHANGED <<messages, currentOffset>>
                 /\ ~isLoadingMore'
                 /\ ~AutoLoadMore']_vars

\* Some request in flight is answered.
Respond ==
    \/ \E i \in 1..MaxRequests, n \in PageLens : ResponseOk(i, n)
    \/ \E i \in 1..MaxRequests, k \in FailKinds : ResponseFail(i, k)

\* Requests the session may send in one run of LiveSpec.
MaxLiveRequests == 2

LiveNext == Next /\ netCount' <= MaxLiveRequests

\* Every request sent is eventually answered.
LiveSpec == Init /\ [][LiveNext]_vars /\ WF_vars(Respond)

Stable == ~isLoading /\ ~isLoadingMore

\* C9: from every reachable state the session eventually reaches a state with
\* no loading flag set.
AlwaysReturnsToStable == []<>Stable

\* C9 witness: stable again after a failed new query, nothing in flight.
StableAfterFailureWitness ==
    /\ Stable
    /\ inflight = << >>
    /\ netCount = 1
    /\ Len(messages) = 2
    /\ messages[2].content[1] = "error"

\* C10: when the response of a filter-change search arrives, the latest batch
\* becomes exactly the page returned for the query under the new filters, the
\* offset becomes PageSize and the earlier messages stay as they are.
FilterChangeReplacesBatch ==
    [][\A i \in 1..MaxRequests, n \in PageLens :
          (ResponseOk(i, n) /\ inflight[i].replace)
              => /\ Len(messages') = Len(messages)
                 /\ messages'[Len(messages')].hasMovies
                 /\ messages'[Len(messages')].movies
                        = Page(inflight[i].query, inflight[i].filters, 0, n)
                 /\ currentOffset' = PageSize
                 /\ \A j \in 1..(Len(messages) - 1) : messages'[j] = messages[j]]_vars

(* ===================== MovieSearch: autocomplete ======================== *)

\* Changes of the input in one run.
MaxEdits == 3

\* setTimeout(..., 500)
DebounceMs == 500
\* inputValue.trim().length < 3
MinChars == 3

\* Time advances in steps of half the debounce delay.
TickMs == DebounceMs \div 2
MaxIdle == DebounceMs + TickMs

\* Texts of the combobox: "", "ma", " ma ", "mat", "mat " and "matr".
AcInputs == {<< >>, <<"m", "a">>, <<" ", "m", "a", " ">>, <<"m", "a", "t">>,
             <<"m", "a", "t", " ">>, <<"m", "a", "t", "r">>}
\* Lengths of data.suggestions in a response.
SuggestionCounts == {0, 1}

\* data.suggestions of the response to a request for value: n completions of it.
Suggestions(value, n) == [k \in 1..n |-> [value |-> value \o <<"x">>]]

\* The autocomplete effect with the length test left out.
AutocompleteEffectAnyLength(v) ==
    [suggestions |-> suggestions, timer |-> v]

\* The autocomplete effect run for inputValue v, after the cleanup of its previous
\* run cleared the timer: the suggestions and the timer it leaves.
AutocompleteEffect(v) ==
    IF Len(Trim(v)) = 0 \/ Len(Trim(v)) < MinChars
    THEN [suggestions |-> << >>, timer |-> NoTimer]
    ELSE [suggestions |-> suggestions, timer |-> v]

\* onInputValueChange: the input becomes v; the effect re-runs.
SetInputValue(v) ==
    /\ v # inputValue
    /\ edits < MaxEdits
    /\ inputValue' = v
    /\ \E e \in {AutocompleteEffect(v)} :
          /\ suggestions' = e.suggestions
          /\ timer' = e.timer
    /\ idle' = 0
    /\ acSince' = 0
    /\ prevInput' = inputValue
    /\ edits' = edits + 1
    /\ UNCHANGED <<isLoadingAutocomplete, acInflight, acLog>>
    /\ UNCHANGED besideAutocomplete

\* Time passes; a timer that is due fires before more time passes.
Tick ==
    /\ idle < MaxIdle
    /\ ~(timer # NoTimer /\ idle >= DebounceMs)
    /\ idle' = idle + TickMs
    /\ UNCHANGED <<inputValue, suggestions, isLoadingAutocomplete, timer, acInflight,
                   acLog, acSince, prevInput, edits>>
    /\ UNCHANGED besideAutocomplete

\* The timer callback: fetchAutocompleteSuggestions(inputValue) up to the fetch.
TimerFires ==
    /\ timer # NoTimer
    /\ idle >= DebounceMs
    /\ timer' = NoTimer
    /\ isLoadingAutocomplete' = TRUE
    /\ acInflight' = Append(acInflight, Trim(timer))
    /\ acLog' = Append(acLog, Trim(timer))
    /\ acSince' = acSince + 1
    /\ UNCHANGED <<inputValue, suggestions, idle, prevInput, edits>>
    /\ UNCHANGED besideAutocomplete

\* fetchAutocompleteSuggestions after the fetch: response i is ok.
AutocompleteOk(i, n) ==
    /\ i \in 1..Len(acInflight)
    /\ suggestions' = Suggestions(acInflight[i], n)
    /\ isLoadingAutocomplete' = FALSE
    /\ acInflight' = Remove(acInflight, i)
    /\ UNCHANGED <<inputValue, timer, idle, acLog, acSince, prevInput, edits>>
    /\ UNCHANGED besideAutocomplete

\* fetchAutocompleteSuggestions after the fetch: request i fails.
AutocompleteFail(i) ==
    /\ i \in 1..Len(acInflight)
    /\ suggestions' = << >>
    /\ isLoadingAutocomplete' = FALSE
    /\ acInflight' = Remove(acInflight, i)
    /\ UNCHANGED <<inputValue, timer, idle, acLog, acSince, prevInput, edits>>
    /\ UNCHANGED besideAutocomplete

NextAutocomplete ==
    \/ \E v \in AcInputs : SetInputValue(v)
    \/ Tick
    \/ TimerFires
    \/ \E i \in 1..MaxEdits, n \in SuggestionCounts : AutocompleteOk(i, n)
    \/ \E i \in 1..MaxEdits : AutocompleteFail(i)

InitAutocomplete == Init /\ ~intersecting

SpecAutocomplete == InitAutocomplete /\ [][NextAutocomplete]_vars

\* C11: an autocomplete request is issued only for an input of at least 3
\* characters after trimming that has stayed unchanged for 500ms, it is the first
\* request since the input changed and carries the trimmed input; once the input
\* has been unchanged for more than 500ms exactly one request has been issued for
\* it; an input shorter than 3 characters has no request and no pending timer.
DebouncedAutocomplete ==
    /\ [][acLog' # acLog => /\ Len(Trim(inputValue)) >= MinChars
                            /\ idle >= DebounceMs
                            /\ acSince = 0
                            /\ acLog' = Append(acLog, Trim(inputValue))]_vars
    /\ [](idle > DebounceMs /\ Len(Trim(inputValue)) >= MinChars => acSince = 1)
    /\ [](Len(Trim(inputValue)) < MinChars => acSince = 0 /\ timer = NoTimer)

\* C11 witness: "mat" was replaced by "matr" before its timer fired, and the only
\* request issued is the one for "matr".
DebounceWitness ==
    /\ prevInput = <<"m", "a", "t">>
    /\ inputValue = <<"m", "a", "t", "r">>
    /\ acLog = <<inputValue>>

\* C12: a response whose request value differs from the current input leaves the
\* suggestion list as it is.
StaleSuggestionsIgnored ==
    [][\A i \in 1..MaxEdits, n \in SuggestionCounts :
          (AutocompleteOk(i, n) /\ acInflight[i] # Trim(inputValue))
              => suggestions' = suggestions]_vars

(* ======================== the TMDB result cache ========================= *)

\* Steps of the clock in one run.
MaxTicks == 2
\* env.ts: TMDB_CACHE_DAYS defaults to 7.
TMDB_CACHE_DAYS == 7
cacheExpiryMs == TMDB_CACHE_DAYS * 24 * 60 * 60 * 1000
\* The clock advances in steps of half the expiry time.
ClockStep == cacheExpiryMs \div 2

\* JavaScript values of the record fields.
Undefined == <<"undefined">>
Bool(b) == <<"boolean", b>>
\* !v
Falsy(v) == v \in {Undefined, Bool(FALSE)}
\* v || undefined
OrUndefined(v) == IF Falsy(v) THEN Undefined ELSE v

\* year undefined; also search_year NULL.
NoYear == 0 - 1
Years == {NoYear, 1999}
\* Queries as the callers pass them: "a", " A" and "b".
CacheQueries == {<<"a">>, <<" ", "A">>, <<"b">>}
Ids == {1, 2}
\* TMDBSearchResult: the id and one of the fields.
Records == [id : Ids, adult : {Bool(TRUE), Bool(FALSE)}]

\* String.prototype.toLowerCase on the letters in use.
ToLowerCase(q) == [k \in 1..Len(q) |-> IF q[k] = "A" THEN "a" ELSE q[k]]

normalizeQuery(query) == Trim(ToLowerCase(query))

\* isCacheValid with age <= cacheExpiryMs.
isCacheValidInclusive(updatedAt) == now - updatedAt <= cacheExpiryMs

isCacheValid(updatedAt) == now - updatedAt < cacheExpiryMs

\* The rows the select of getCachedTMDBResult matches.
Matching(query, year) ==
    {r \in table : /\ r.searchQuery = normalizeQuery(query)
                   /\ (year # NoYear => r.searchYear = year)}

\* The object getCachedTMDBResult builds from a row.
CachedRecord(cached) ==
    [id |-> cached.id, adult |-> OrUndefined(cached.adult)]

\* What getCachedTMDBResult(query, year) can return: null without a connection,
\* when the select throws (fails) and when no row matches; otherwise limit(1)
\* without an order takes any matching row.
getCachedTMDBResult(query, year, fails) ==
    IF ~dbConfigured \/ fails \/ Matching(query, year) = {}
    THEN {Absent}
    ELSE {IF isCacheValid(r.updatedAt) THEN CachedRecord(r) ELSE Absent :
             r \in Matching(query, year)}

\* The row cacheTMDBResult writes; updatedAt is new Date() on update and
\* defaultNow() on insert.
Row(query, year, result) ==
    [id |-> result.id, searchQuery |-> normalizeQuery(query), searchYear |-> year,
     adult |-> result.adult, updatedAt |-> now]

\* update ... where id = row.id
Update(rows, row) == {IF r.id = row.id THEN row ELSE r : r \in rows}

\* insert into a table without primary key.
InsertNoPrimaryKey(rows, row) == rows \cup {row}

\* insert: the primary key rejects a second row with the same id (the error is
\* caught by cacheTMDBResult and the table stays as it is).
Insert(rows, row) ==
    IF \E r \in rows : r.id = row.id THEN rows ELSE rows \cup {row}

\* cacheTMDBResult that inserts without looking for an existing row, into a
\* table without primary key.
cacheTMDBResultInsertOnly(query, year, result, fails) ==
    IF ~dbConfigured \/ fails THEN table
    ELSE table \cup {Row(query, year, result)}

\* The table after cacheTMDBResult(query, year, result); a throwing statement
\* (fails) is caught and leaves the table as it is.
cacheTMDBResult(query, year, result, fails) ==
    IF ~dbConfigured \/ result = Absent \/ fails THEN table
    ELSE IF \E existing \in table : existing.id = result.id
         THEN Update(table, Row(query, year, result))
         ELSE Insert(table, Row(query, year, result))

\* A getCachedTMDBResult call.
GetCall(query, year, fails) ==
    /\ \E cached \in getCachedTMDBResult(query, year, fails) :
          got' = [query |-> query, year |-> year, at |-> now, result |-> cached]
    /\ UNCHANGED <<dbConfigured, table, now>>

\* A cacheTMDBResult call.
PutCall(query, year, result, fails) ==
    /\ table' = cacheTMDBResult(query, year, result, fails)
    /\ UNCHANGED <<dbConfigured, now, got>>

\* A caller reads the cache.
Get(query, year, fails) ==
    /\ GetCall(query, year, fails)
    /\ UNCHANGED besideCache

\* A caller writes the cache.
Put(query, year, result, fails) ==
    /\ PutCall(query, year, result, fails)
    /\ UNCHANGED besideCache

\* Time passes.
TimePasses ==
    /\ now < MaxTicks * ClockStep
    /\ now' = now + ClockStep
    /\ UNCHANGED <<dbConfigured, table, got>>
    /\ UNCHANGED besideCache

NextCache ==
    \/ \E q \in CacheQueries, y \in Years, f \in BOOLEAN : Get(q, y, f)
    \/ \E q \in CacheQueries, y \in Years, m \in Records, f \in BOOLEAN : Put(q, y, m, f)
    \/ TimePasses

InitCache ==
    /\ SessionInit /\ ~intersecting
    /\ AutocompleteInit
    /\ dbConfigured \in BOOLEAN
    /\ CacheInit
    /\ FetchInit /\ PostInit
    /\ EnrichInit
    /\ HydrateInit
    /\ MovieCardInit
    /\ RaceInit
    /\ RouteInit

SpecCache == InitCache /\ [][NextCache]_vars

\* C15: what getCachedTMDBResult returns is built from a row that matches the
\* query and year and whose age is below the expiry time; it returns absent when
\* no row matches and when every matching row has reached the expiry time.
NeverReturnsExpired ==
    [][got' # got =>
          \E rows \in {Matching(got'.query, got'.year)} :
              /\ got'.result # Absent =>
                     \E r \in rows : /\ now - r.updatedAt < cacheExpiryMs
                                     /\ got'.result = CachedRecord(r)
              /\ (\A r \in rows : now - r.updatedAt >= cacheExpiryMs)
                     => got'.result = Absent]_vars

\* C15 witness: a call has just returned absent for a key whose row is exactly
\* cacheExpiryMs old.
ExpiredEntryWitness ==
    /\ got # NoCall
    /\ got.at = now
    /\ got.result = Absent
    /\ \E r \in table : /\ r.searchQuery = normalizeQuery(got.query)
                        /\ r.searchYear = got.year
                        /\ now - r.updatedAt = cacheExpiryMs

\* C16: right after cacheTMDBResult(q, y, m) on a working cache, every
\* getCachedTMDBResult(q2, y) with q2 equal to q up to letter case and surrounding
\* whitespace returns a record equal to m.
CacheRoundTrip ==
    [][\A q \in CacheQueries, y \in Years, m \in Records :
          (table' # table /\ table' = cacheTMDBResult(q, y, m, FALSE)) =>
              \A q2 \in CacheQueries :
                  normalizeQuery(q2) = normalizeQuery(q) =>
                      \A cached \in getCachedTMDBResult(q2, y, FALSE)' : cached = m]_vars

\* C17: the cache never holds two rows with the same id, and a write for an id
\* that has a row replaces that row by the written one, whose updatedAt is the
\* current time, and leaves the other rows as they were.
UpsertById ==
    /\ [](\A r1, r2 \in table : r1.id = r2.id => r1 = r2)
    /\ [][\A row \in table' \ table :
            (\E old \in table : old.id = row.id)
                => /\ row.updatedAt = now
                   /\ table' = {r \in table : r.id # row.id} \cup {row}]_vars

\* C17 witness: a row that a call returned has since been overwritten with
\* another query and a later updatedAt.
OverwrittenWitness ==
    /\ got # NoCall
    /\ got.result # Absent
    /\ \E r \in table : /\ r.id = got.result.id
                        /\ r.searchQuery # normalizeQuery(got.query)
                        /\ r.updatedAt > got.at

(* ============== the TMDB routes: fetchFromTMDB with retries ============= *)

\* env.ts: TMDB_MAX_RETRIES defaults to 2.
TMDB_MAX_RETRIES == 2
\* env.ts: TMDB_RETRY_DELAY defaults to 1000.
TMDB_RETRY_DELAY == 1000

\* error.response?.status of an error without response.
NoStatus == 0
NetworkCodes == {"ECONNREFUSED", "ETIMEDOUT", "ENOTFOUND", "ECONNRESET"}
ClientStatuses == {401, 403, 404, 429}
ServerStatuses == {500, 503}

\* The errors axios.get rejects with: a socket-level failure, the expiry of the
\* timeout option (code ECONNABORTED), or a response with a 4xx or 5xx status.
Errors ==
    {[code |-> c, status |-> NoStatus] : c \in NetworkCodes \cup {"ECONNABORTED"}}
        \cup {[code |-> "ERR_BAD_REQUEST", status |-> st] : st \in ClientStatuses}
        \cup {[code |-> "ERR_BAD_RESPONSE", status |-> st] : st \in ServerStatuses}

\* The routes with a fetchFromTMDB.
Variants == {"poster", "lookup"}

isClientError(error) == error.status # NoStatus /\ error.status \in ClientStatuses
isNetworkError(error) == error.code \in NetworkCodes

isServerError(error) == error.status # NoStatus /\ error.status >= 500

RECURSIVE Pow(_, _)
\* Math.pow(base, n)
Pow(base, n) == IF n = 0 THEN 1 ELSE base * Pow(base, n - 1)

delayMs(count) == TMDB_RETRY_DELAY * Pow(2, count)

\* Retries that retries every error below the retry limit.
RetriesAnyError(v, error, count) == v = "poster" /\ count < TMDB_MAX_RETRIES

\* Whether fetchFromTMDB goes on to another attempt after error: the poster route
\* retries network and server errors below the retry limit, the lookup route
\* has no retry.
Retries(v, error, count) ==
    /\ v = "poster"
    /\ ~isClientError(error)
    /\ (isNetworkError(error) \/ isServerError(error))
    /\ count < TMDB_MAX_RETRIES

\* fetchFromTMDB is called: the first axios.get is sent.
FetchCall(v) ==
    /\ fpc' = "request"
    /\ variant' = v
    /\ retryCount' = 0
    /\ outcome' = Absent
    /\ errors' = << >>
    /\ waits' = << >>

\* axios.get resolves: results[0], or null for an empty result list.
ProviderAnswers(result) ==
    /\ fpc = "request"
    /\ fpc' = "returned"
    /\ outcome' = result
    /\ UNCHANGED <<variant, retryCount, errors, waits>>
    /\ UNCHANGED <<cacheVars, postVars>>
    /\ UNCHANGED besideServer

\* axios.get rejects: the call waits for a retry or throws.
ProviderFails(error) ==
    /\ fpc = "request"
    /\ errors' = Append(errors, error)
    /\ IF Retries(variant, error, retryCount)
       THEN /\ fpc' = "wait"
            /\ waits' = Append(waits, delayMs(retryCount))
            /\ UNCHANGED outcome
       ELSE /\ fpc' = "thrown"
            /\ outcome' = error
            /\ UNCHANGED waits
    /\ UNCHANGED <<variant, retryCount>>
    /\ UNCHANGED <<cacheVars, postVars>>
    /\ UNCHANGED besideServer

\* The retry delay is over: fetchFromTMDB(query, year, retryCount + 1).
DelayOver ==
    /\ fpc = "wait"
    /\ fpc' = "request"
    /\ retryCount' = retryCount + 1
    /\ UNCHANGED <<variant, outcome, errors, waits>>
    /\ UNCHANGED <<cacheVars, postVars>>
    /\ UNCHANGED besideServer

\* A caller calls fetchFromTMDB of either route.
Fetch(v) ==
    /\ fpc \in {"idle", "returned", "thrown"}
    /\ FetchCall(v)
    /\ UNCHANGED <<cacheVars, postVars>>
    /\ UNCHANGED besideServer

NextFetch ==
    \/ \E v \in Variants : Fetch(v)
    \/ \E r \in Records \cup {Absent} : ProviderAnswers(r)
    \/ \E e \in Errors : ProviderFails(e)
    \/ DelayOver

\* No request has reached fetchFromTMDB yet.
InitFetch == Init /\ ~intersecting

SpecFetch == InitFetch /\ [][NextFetch]_vars

\* C13: an attempt that fails with status 401, 403, 404 or 429 is the last
\* attempt of its lookup, which has thrown that error; when it is the first
\* attempt the lookup made exactly one attempt.
ClientErrorIsTerminal ==
    \A k \in 1..Len(errors) :
        errors[k].status \in ClientStatuses
            => /\ k = Len(errors)
               /\ fpc = "thrown"
               /\ outcome = errors[k]

\* C13 witness: a lookup has thrown after its single attempt failed with 429.
RateLimitedWitness ==
    /\ fpc = "thrown"
    /\ variant = "poster"
    /\ Len(errors) = 1
    /\ errors[1].status = 429
    /\ waits = << >>

\* C14: a lookup that has failed with every attempt ending in a network-class
\* error (connection refused, reset, DNS, a socket timeout or the expiry of the
\* request's timeout) or a 5xx status has made TMDB_MAX_RETRIES + 1 attempts, and
\* its n-th wait (from 0) was TMDB_RETRY_DELAY * 2^n.
RetriesUntilExhausted ==
    (/\ fpc = "thrown"
     /\ \A k \in 1..Len(errors) :
            \/ errors[k].code \in NetworkCodes \cup {"ECONNABORTED"}
            \/ errors[k].status >= 500)
        => /\ Len(errors) = TMDB_MAX_RETRIES + 1
           /\ waits = [n \in 1..TMDB_MAX_RETRIES |-> TMDB_RETRY_DELAY * Pow(2, n - 1)]

(* ===================== POST /api/tmdb/poster ============================ *)

\* The request bodies: query "a", " A" or " ", with or without a year.
PostBodies == [query : {<<"a">>, <<" ", "A">>, <<" ">>}, year : Years]
\* What the provider does to a request of the route: a record with adult set,
\* no result, a reset connection, 404 or 500.
PosterResults == {r \in Records : r.adult = Bool(TRUE)} \cup {Absent}
PosterErrors == {e \in Errors : e.code = "ECONNRESET" \/ e.status \in {404, 500}}

InvalidRequest == [status |-> 400, body |-> [error |-> "Invalid request"]]
\* The response for a thrown fetchError.
FetchFailed(error) ==
    [status |-> IF error.status # NoStatus THEN error.status ELSE 500,
     body |-> [error |-> "Failed to fetch from TMDB"]]
Ok(result) == [status |-> 200, body |-> result]

\* The request arrives: parse and validate.
Receive(b) ==
    /\ pc \in {"idle", "done"}
    /\ body' = b
    /\ cacheRead' = "none"
    /\ cacheWrite' = "none"
    /\ IF Trim(b.query) = << >>
       THEN response' = InvalidRequest /\ pc' = "done"
       ELSE response' = NoResponse /\ pc' = "cache"
    /\ fpc' = "idle"
    /\ variant' = "poster"
    /\ retryCount' = 0
    /\ outcome' = Absent
    /\ errors' = << >>
    /\ waits' = << >>
    /\ UNCHANGED cacheVars
    /\ UNCHANGED besideServer

\* Step 1: check the cache; a hit is returned, otherwise fetchFromTMDB is called.
CheckCache(fails) ==
    /\ pc = "cache"
    /\ GetCall(Trim(body.query), body.year, fails)
    /\ IF got'.result # Absent
       THEN /\ response' = Ok(got'.result)
            /\ cacheRead' = "hit"
            /\ pc' = "done"
            /\ UNCHANGED fetchVars
       ELSE /\ cacheRead' = IF fails THEN "failed" ELSE "miss"
            /\ pc' = "fetch"
            /\ FetchCall("poster")
            /\ UNCHANGED response
    /\ UNCHANGED <<body, cacheWrite>>
    /\ UNCHANGED besideServer

\* NeedsCaching that caches nothing.
NeedsCachingNever(result) == FALSE

\* Step 3 is entered: if (result).
NeedsCaching(result) == result # Absent

\* Step 2 ends: fetchFromTMDB has thrown or returned.
FetchSettles ==
    /\ pc = "fetch"
    /\ fpc \in {"returned", "thrown"}
    /\ IF fpc = "thrown"
       THEN response' = FetchFailed(outcome) /\ pc' = "done"
       ELSE IF NeedsCaching(outcome)
            THEN pc' = "write" /\ UNCHANGED response
            ELSE response' = Ok(outcome) /\ pc' = "done"
    /\ UNCHANGED <<body, cacheRead, cacheWrite>>
    /\ UNCHANGED <<cacheVars, fetchVars>>
    /\ UNCHANGED besideServer

\* AfterWrite that fails the request when the cache write failed.
AfterWriteStrict(result, fails) ==
    IF fails THEN [status |-> 500, body |-> [error |-> "Failed to cache"]]
    ELSE Ok(result)

\* The response after step 3: a cacheWriteError is logged only.
AfterWrite(result, fails) == Ok(result)

\* Step 3: cache the result, then respond.
WriteCache(fails) ==
    /\ pc = "write"
    /\ PutCall(Trim(body.query), body.year, outcome, fails)
    /\ cacheWrite' = IF fails THEN "failed" ELSE "done"
    /\ response' = AfterWrite(outcome, fails)
    /\ pc' = "done"
    /\ UNCHANGED <<body, cacheRead>>
    /\ UNCHANGED fetchVars
    /\ UNCHANGED besideServer

NextPoster ==
    \/ \E b \in PostBodies : Receive(b)
    \/ \E f \in BOOLEAN : CheckCache(f)
    \/ \E r \in PosterResults : ProviderAnswers(r)
    \/ \E e \in PosterErrors : ProviderFails(e)
    \/ DelayOver
    \/ FetchSettles
    \/ \E f \in BOOLEAN : WriteCache(f)
    \/ TimePasses

InitPoster == InitCache

SpecPoster == InitPoster /\ [][NextPoster]_vars

\* C18: after a failed cache read the provider is queried; a request whose cache
\* read or cache write failed ends with the response the provider lookup alone
\* determines, the same as every request on a server without cache; after a failed
\* cache write that response is the provider's record with status 200.
CacheFailuresNeverFail ==
    /\ cacheRead = "failed" => fpc # "idle"
    /\ (/\ pc = "done"
        /\ \/ cacheRead = "failed"
           \/ cacheWrite = "failed"
           \/ (~dbConfigured /\ cacheRead # "none"))
           => /\ fpc \in {"returned", "thrown"}
              /\ response = IF fpc = "thrown" THEN FetchFailed(outcome) ELSE Ok(outcome)
    /\ cacheWrite = "failed" => (outcome \in Records /\ response = Ok(outcome))

\* C18 witness: a request whose cache read and cache write both failed has been
\* answered with the provider's record and status 200.
CacheFailuresWitness ==
    /\ pc = "done"
    /\ cacheRead = "failed"
    /\ cacheWrite = "failed"
    /\ response.status = 200
    /\ response.body \in Records

\* C19: the provider is only asked after the cache was read without a hit; on a
\* hit the response is the record read from a row younger than the expiry time
\* and fetchFromTMDB is not called; once a response exists for a record the
\* provider returned, cacheTMDBResult has been called, and when it went through
\* the row of that record is in the table under the request's query and year; a
\* null result is not written, and nothing else changes the table.
CacheAside ==
    /\ [](fpc # "idle" => cacheRead \in {"miss", "failed"})
    /\ [](cacheRead = "hit" =>
            /\ fpc = "idle"
            /\ response = Ok(got.result)
            /\ \E r \in table : /\ CachedRecord(r) = got.result
                                /\ got.at - r.updatedAt < cacheExpiryMs)
    /\ []((response # NoResponse /\ fpc = "returned" /\ outcome # Absent)
            => cacheWrite # "none")
    /\ []((cacheWrite = "done" /\ dbConfigured) =>
            \E r \in table : /\ r.id = outcome.id
                             /\ r.adult = outcome.adult
                             /\ r.searchQuery = normalizeQuery(body.query)
                             /\ r.searchYear = body.year)
    /\ []((fpc = "returned" /\ outcome = Absent) => cacheWrite = "none")
    /\ [][table' # table => (pc = "write" /\ outcome # Absent)]_vars

\* C19 witness: a request answered from the cache, without a provider request.
CacheHitWitness ==
    /\ pc = "done"
    /\ cacheRead = "hit"
    /\ fpc = "idle"
    /\ response.status = 200
    /\ response.body \in {CachedRecord(r) : r \in table}

(* ================== enrichSearchResultsWithTMDB ========================= *)

\* Length of the hit list.
MaxHits == 3

Null == <<"null">>
HitIds == {1, 2}
\* fields.tmdb_id: absent, null or a number.
TmdbIds == {Undefined, Null, <<"number", 603>>}
\* fields.title || fields.title_raw || hit.title: "" when none is set.
Titles == {<< >>, <<"T">>}
\* The hits: id, fields.tmdb_id, title and tmdbData; a hit that needs no lookup
\* always has its title.
SearchHits ==
    {h \in [id : HitIds, tmdb_id : TmdbIds, title : Titles, tmdbData : {Undefined}] :
        h.tmdb_id # Undefined => h.title # << >>}
HitLists == UNION {[1..n -> SearchHits] : n \in 0..MaxHits}

\* How a searchTMDB call ends: a record, null, or an exception.
TmdbData == <<"object", 603>>
Throws == <<"throws">>
LookupResults == {TmdbData, Null, Throws}

\* A lookup for every hit without a number.
needsLookupUnlessNumber(hit) == hit.tmdb_id \in {Undefined, Null}

\* hit.fields?.tmdb_id === undefined
needsLookup(hit) == hit.tmdb_id = Undefined

\* hits.filter(hit => hit.fields?.tmdb_id === undefined)
hitsNeedingLookup == SelectSeq(searchHits, needsLookup)

\* enrichSearchHitWithTMDB(hit) after searchTMDB ended with result.
enrichSearchHitWithTMDB(hit, result) ==
    IF result = Throws THEN hit
    ELSE IF result = Null THEN [hit EXCEPT !.tmdbData = Undefined]
    ELSE [hit EXCEPT !.tmdbData = result]

\* enrichedHitsNeedingLookup.find(enriched => enriched.id === hit.id) || hit
Find(list, hit) ==
    IF \E k \in 1..Len(list) : list[k].id = hit.id
    THEN list[CHOOSE k \in 1..Len(list) :
                 /\ list[k].id = hit.id
                 /\ \A j \in 1..(k - 1) : list[j].id # hit.id]
    ELSE hit

\* enrichedResults with the looked-up hits moved to the front.
enrichedResultsGrouped(list) ==
    list \o SelectSeq(searchHits, LAMBDA h : ~needsLookup(h))

\* enrichedResults: hits.map(...) over the settled list.
enrichedResults(list) ==
    [k \in 1..Len(searchHits) |->
        IF ~needsLookup(searchHits[k]) THEN searchHits[k] ELSE Find(list, searchHits[k])]

\* The position in hits of the k-th hit of hitsNeedingLookup.
Origin(k) ==
    CHOOSE i \in 1..Len(searchHits) :
        /\ needsLookup(searchHits[i])
        /\ Cardinality({j \in 1..i : needsLookup(searchHits[j])}) = k

\* A searchTMDB call for every hit that needs a lookup, titled or not.
callsSearchTMDBUntitled(hit) == needsLookup(hit)

\* enrichSearchHitWithTMDB(hit) reaches its searchTMDB call: tmdb_id is
\* undefined and there is a title.
callsSearchTMDB(hit) == needsLookup(hit) /\ hit.title # << >>

\* The call starts: every hit that needs a lookup gets its
\* enrichSearchHitWithTMDB, which returns the hit at once when it has no title
\* and otherwise calls searchTMDB.
EnrichStart ==
    /\ phase = "called"
    /\ phase' = "awaiting"
    /\ pending' = {k \in 1..Len(hitsNeedingLookup) : callsSearchTMDB(hitsNeedingLookup[k])}
    /\ enriched' = [k \in {j \in 1..Len(hitsNeedingLookup) :
                              ~callsSearchTMDB(hitsNeedingLookup[j])} |-> hitsNeedingLookup[k]]
    /\ lookups' = [i \in 1..Len(searchHits) |->
                      IF callsSearchTMDB(searchHits[i]) THEN 1 ELSE 0]
    /\ UNCHANGED <<searchHits, output, order>>
    /\ UNCHANGED besideEnrich

\* The searchTMDB call of position k ends.
LookupSettles(k, result) ==
    /\ phase = "awaiting"
    /\ k \in pending
    /\ pending' = pending \ {k}
    /\ enriched' = [j \in DOMAIN enriched \cup {k} |->
                       IF j = k THEN enrichSearchHitWithTMDB(hitsNeedingLookup[k], result)
                       ELSE enriched[j]]
    /\ order' = Append(order, k)
    /\ UNCHANGED <<searchHits, phase, output, lookups>>
    /\ UNCHANGED besideEnrich

\* Promise.all resolves; the results are combined and returned.
EnrichReturns ==
    /\ phase = "awaiting"
    /\ pending = {}
    /\ phase' = "returned"
    /\ output' = enrichedResults([k \in 1..Len(hitsNeedingLookup) |-> enriched[k]])
    /\ UNCHANGED <<searchHits, pending, enriched, order, lookups>>
    /\ UNCHANGED besideEnrich

NextEnrich ==
    \/ EnrichStart
    \/ \E k \in 1..MaxHits, r \in LookupResults : LookupSettles(k, r)
    \/ EnrichReturns

\* enrichSearchResultsWithTMDB is called with any hit list.
InitEnrich ==
    /\ SessionInit /\ ~intersecting
    /\ AutocompleteInit
    /\ dbConfigured = TRUE /\ CacheInit
    /\ FetchInit /\ PostInit
    /\ searchHits \in HitLists
    /\ phase = "called"
    /\ pending = {}
    /\ enriched = << >>
    /\ output = << >>
    /\ order = << >>
    /\ lookups = [i \in 1..Len(searchHits) |-> 0]
    /\ HydrateInit
    /\ MovieCardInit
    /\ RaceInit
    /\ RouteInit

SpecEnrich == InitEnrich /\ [][NextEnrich]_vars

\* C20: the list enrichSearchResultsWithTMDB returns has the length of its
\* argument and the same id at every position.
EnrichPreservesOrder ==
    phase = "returned" =>
        /\ Len(output) = Len(searchHits)
        /\ \A k \in 1..Len(output) : output[k].id = searchHits[k].id

\* C20 witness: three hits with two ids, the lookups settled in reverse order,
\* and the list returned.
EnrichOrderWitness ==
    /\ phase = "returned"
    /\ Len(searchHits) = 3
    /\ searchHits[1].id # searchHits[2].id
    /\ order = <<3, 2, 1>>
    /\ output[1].tmdbData = Undefined
    /\ output[3].tmdbData = TmdbData

(* ================== HydratedMovieCard =================================== *)

\* Length of the hit list the grid renders.
MaxCards == 2

\* The effect's fetchTMDBData reaches searchTMDB: the movie has a title and
\* its tmdb_id is not null.
CardLooksUp(movie) == movie.title # << >> /\ movie.tmdb_id # Null

\* The card of hits[i] mounts and its effect runs fetchTMDBData up to the
\* first await.
CardMount(i) ==
    /\ card = 0
    /\ i \in 1..Len(searchHits)
    /\ card' = i
    /\ cardMounted' = TRUE
    /\ IF CardLooksUp(searchHits[i])
       THEN /\ cardIsLoading' = TRUE
            /\ cardAwaiting' = TRUE
            /\ cardLookups' = cardLookups + 1
       ELSE /\ cardIsLoading' = FALSE
            /\ UNCHANGED <<cardAwaiting, cardLookups>>
    /\ UNCHANGED cardTmdbData
    /\ UNCHANGED besideHydrate

\* searchTMDB ends: setTmdbData for a record, then the finally block.
CardSettles(result) ==
    /\ cardAwaiting
    /\ cardAwaiting' = FALSE
    /\ cardTmdbData' = IF cardMounted /\ result = TmdbData THEN result ELSE cardTmdbData
    /\ cardIsLoading' = IF cardMounted THEN FALSE ELSE cardIsLoading
    /\ UNCHANGED <<card, cardMounted, cardLookups>>
    /\ UNCHANGED besideHydrate

\* The effect's cleanup.
CardUnmount ==
    /\ cardMounted
    /\ cardMounted' = FALSE
    /\ UNCHANGED <<card, cardTmdbData, cardIsLoading, cardAwaiting, cardLookups>>
    /\ UNCHANGED besideHydrate

NextHydrate ==
    \/ \E i \in 1..MaxCards : CardMount(i)
    \/ \E r \in LookupResults : CardSettles(r)
    \/ CardUnmount

\* The hits reach the grid, which mounts a card, or
\* enrichSearchResultsWithTMDB.
NextEnrichment ==
    \/ NextHydrate
    \/ NextEnrich

InitEnrichment == InitEnrich /\ Len(searchHits) <= MaxCards

SpecEnrichment == InitEnrichment /\ [][NextEnrichment]_vars

\* C21: a hit whose tmdb_id is null gets no searchTMDB call, neither from
\* enrichSearchResultsWithTMDB, which returns it as it was passed in, nor from
\* its HydratedMovieCard, whose tmdbData stays null.
NullIdSkipsLookup ==
    \A i \in 1..Len(searchHits) : searchHits[i].tmdb_id = Null =>
        /\ lookups[i] = 0
        /\ phase = "returned" => output[i] = searchHits[i]
        /\ card = i => cardLookups = 0 /\ cardTmdbData = Null

\* C21 witness: a call that returned a null-id hit next to a hit it looked up,
\* and the null-id hit's card has finished loading.
NullIdWitness ==
    /\ phase = "returned"
    /\ \E i, j \in 1..Len(searchHits) :
          /\ searchHits[i].tmdb_id = Null
          /\ searchHits[j].id = searchHits[i].id
          /\ lookups[j] = 1
          /\ output[j].tmdbData = TmdbData
          /\ card = i
          /\ ~cardIsLoading

IsNumber(id) == id \notin {Undefined, Null}

\* C23: a hit whose tmdb_id is a number still gets its searchTMDB call by
\* title and year, from enrichSearchResultsWithTMDB once it has started and
\* from the hit's HydratedMovieCard once it has mounted.
ConcreteIdStillLookedUp ==
    \A i \in 1..Len(searchHits) : IsNumber(searchHits[i].tmdb_id) =>
        /\ phase # "called" => lookups[i] = 1
        /\ card = i => cardLookups = 1

\* C24: the returned list holds, at the position of every hit that was looked
\* up, what that hit's own enrichSearchHitWithTMDB resolved to: the hit with
\* the record its lookup found, or the hit as passed in when its lookup
\* threw or found nothing.
LookupFailureIsolated ==
    phase = "returned" =>
        \A k \in 1..Len(hitsNeedingLookup) :
            callsSearchTMDB(hitsNeedingLookup[k]) => output[Origin(k)] = enriched[k]

(* ================== POST /api/search, POST /api/autocomplete ============ *)

\* Requests the session may send while the routes are watched.
MaxValidated == 1

Str(chars) == <<"string", chars>>
Num(n) == <<"number", n>>

\* request.json() rejects; it resolves to null; it resolves to an object.
ParseError == [parse |-> "error"]
NullBody == [parse |-> "null"]

\* body.value of a search request, body.field and body.size of an
\* autocomplete request.
SearchValues == {Undefined, Null, Str(<< >>), Str(<<" ">>), Str(<<"a">>), Num(0), Num(123)}
AutocompleteFields == {Undefined, Str(<< >>), Str(<<"d">>)}
AutocompleteSizes == {Undefined, Null, Str(<<"1">>), Num(0), Num(10)}
SearchBodies == {ParseError, NullBody} \cup [value : SearchValues]
AutocompleteBodies ==
    {ParseError, NullBody} \cup [field : AutocompleteFields, size : AutocompleteSizes]

\* !v for the values above.
Not(v) == v \in {Undefined, Null, Str(<< >>), Num(0)}
\* typeof v
TypeOf(v) == IF v = Null THEN "object" ELSE v[1]

IsObject(b) == b \notin {ParseError, NullBody}

InternalServerError == [status |-> 500, body |-> [error |-> "Internal server error"]]
BackendStatuses == {200, 400, 503}
BackendResponse(status) ==
    [status |-> status,
     body |-> IF status = 200 THEN [hits |-> "content"] ELSE [error |-> "Request failed"]]

\* The search route's test with the string check left out.
SearchInvalidNoTypeCheck(b) == ~IsObject(b) \/ Not(b.value)

\* parseError || !body?.value || typeof body.value !== 'string'
SearchInvalid(b) == ~IsObject(b) \/ Not(b.value) \/ TypeOf(b.value) # "string"

\* !body.field || typeof body.size !== 'number'
AutocompleteInvalid(b) == Not(b.field) \/ TypeOf(b.size) # "number"

\* The route answers without a backend call.
Reject(r, b, resp) ==
    /\ route' = r
    /\ routeBody' = b
    /\ routePc' = "done"
    /\ routeResponse' = resp
    /\ backendCalls' = 0
    /\ UNCHANGED besideRoute

\* The route calls apiClient.post.
Forward(r, b) ==
    /\ route' = r
    /\ routeBody' = b
    /\ routePc' = "backend"
    /\ routeResponse' = NoResponse
    /\ backendCalls' = 1
    /\ UNCHANGED besideRoute

\* POST of /api/search up to its apiClient.post.
PostSearch(b) ==
    /\ routePc \in {"idle", "done"}
    /\ IF SearchInvalid(b) THEN Reject("search", b, InvalidRequest)
       ELSE Forward("search", b)

\* POST of /api/autocomplete up to its apiClient.post; a body that did not
\* parse, or null, throws into the catch block.
PostAutocomplete(b) ==
    /\ routePc \in {"idle", "done"}
    /\ IF ~IsObject(b) THEN Reject("autocomplete", b, InternalServerError)
       ELSE IF AutocompleteInvalid(b) THEN Reject("autocomplete", b, InvalidRequest)
       ELSE Forward("autocomplete", b)

\* apiClient.post settles and the route passes the outcome on.
BackendSettles(status) ==
    /\ routePc = "backend"
    /\ routePc' = "done"
    /\ routeResponse' = BackendResponse(status)
    /\ UNCHANGED <<route, routeBody, backendCalls>>
    /\ UNCHANGED besideRoute

NextRoute ==
    \/ \E b \in SearchBodies : PostSearch(b)
    \/ \E b \in AutocompleteBodies : PostAutocomplete(b)
    \/ \E status \in BackendStatuses : BackendSettles(status)

\* The session with its request budget.
ValidatedSession == Next /\ netCount' <= MaxValidated

NextValidation ==
    \/ NextRoute
    \/ ValidatedSession

SpecValidation == Init /\ [][NextValidation]_vars

\* What the claim calls failing validation: for /api/search a value that is
\* missing, empty or not a string; for /api/autocomplete a missing field or a
\* size that is not a number.
FailsValidation ==
    \/ /\ route = "search"
       /\ \/ ~IsObject(routeBody)
          \/ routeBody.value \in {Undefined, Null, Str(<< >>)}
          \/ routeBody.value[1] # "string"
    \/ /\ route = "autocomplete"
       /\ IsObject(routeBody)
       /\ \/ routeBody.field \in {Undefined, Str(<< >>)}
          \/ routeBody.size = Undefined
          \/ routeBody.size[1] # "number"

\* C25: a request that fails validation is answered with status 400 and error
\* 'Invalid request' without a backend call; an autocomplete request whose
\* body is null or does not parse makes no backend call either; and every
\* request the session sends carries a query that is not empty after trimming.
InvalidNeverReachesBackend ==
    /\ FailsValidation =>
           /\ routePc = "done"
           /\ routeResponse = InvalidRequest
           /\ backendCalls = 0
    /\ (route = "autocomplete" /\ ~IsObject(routeBody)) =>
           /\ routeResponse = InternalServerError
           /\ backendCalls = 0
    /\ \A i \in 1..Len(inflight) : Trim(inflight[i].query) # << >>

\* C25 witness: the search route has rejected a numeric value, and the
\* session, asked to search for a blank query, has sent nothing.
InvalidRejectedWitness ==
    /\ route = "search"
    /\ routeBody = [value |-> Num(123)]
    /\ routeResponse.status = 400
    /\ hasInitialized
    /\ netCount = 0
    /\ HandleSearch(S, <<" ">>, 0, FALSE, FALSE, filters) = S

(* ================== concurrent cacheTMDBResult ========================== *)

\* The id both calls write.
RaceId == 1
Calls == {1, 2}
\* The arguments of one call.
Writes == [query : CacheQueries, year : Years, result : {m \in Records : m.id = RaceId}]

\* The row an earlier cacheTMDBResult left.
OldRow ==
    [id |-> RaceId, searchQuery |-> <<"b">>, searchYear |-> NoYear,
     adult |-> Bool(TRUE), updatedAt |-> 0]

\* cacheTMDBResult(query, year, result) is called.
CallCache(w, args) ==
    /\ w \notin DOMAIN writers
    /\ writers' = [v \in DOMAIN writers \cup {w} |->
                      IF v = w
                      THEN [pc |-> "select", args |-> args, existing |-> FALSE,
                            caught |-> FALSE]
                      ELSE writers[v]]
    /\ UNCHANGED cacheVars
    /\ UNCHANGED besideRace

\* select ... where id = result.id limit 1
Select(w) ==
    /\ w \in DOMAIN writers
    /\ writers[w].pc = "select"
    /\ writers' = [writers EXCEPT ![w].pc = "write",
                                  ![w].existing = \E r \in table : r.id = writers[w].args.result.id]
    /\ UNCHANGED cacheVars
    /\ UNCHANGED besideRace

\* The update or the insert the select led to; an insert that the primary key
\* rejects throws into the catch block, and the call returns.
Write(w) ==
    /\ w \in DOMAIN writers
    /\ writers[w].pc = "write"
    /\ \E row \in {Row(writers[w].args.query, writers[w].args.year, writers[w].args.result)} :
          IF writers[w].existing
          THEN /\ table' = Update(table, row)
               /\ writers' = [writers EXCEPT ![w].pc = "returned"]
          ELSE /\ table' = Insert(table, row)
               /\ writers' = [writers EXCEPT ![w].pc = "returned",
                                             ![w].caught = (row \notin Insert(table, row))]
    /\ UNCHANGED <<dbConfigured, now, got>>
    /\ UNCHANGED besideRace

NextRace ==
    \/ \E w \in Calls, args \in Writes : CallCache(w, args)
    \/ \E w \in Calls : Select(w)
    \/ \E w \in Calls : Write(w)
    \/ TimePasses

\* A configured database whose table is empty or holds a row with the id.
InitRace ==
    /\ SessionInit /\ ~intersecting
    /\ AutocompleteInit
    /\ dbConfigured = TRUE
    /\ table \in {{}, {OldRow}}
    /\ now = 0
    /\ got = NoCall
    /\ FetchInit /\ PostInit
    /\ EnrichInit
    /\ HydrateInit
    /\ MovieCardInit
    /\ RouteInit
    /\ RaceInit

SpecRace == InitRace /\ [][NextRace]_vars

\* The columns cacheTMDBResult sets from its arguments.
Contents(row) == <<row.searchQuery, row.searchYear, row.adult>>

\* C26: the table never holds two rows with the id whatever the interleaving,
\* each call returns to its caller, and once both calls have returned the one
\* row with the id carries the contents one of the two calls wrote.
ConcurrentWritesSafe ==
    /\ Cardinality({r \in table : r.id = RaceId}) <= 1
    /\ \A w \in DOMAIN writers : writers[w].pc \in {"select", "write", "returned"}
    /\ (DOMAIN writers = Calls /\ \A w \in Calls : writers[w].pc = "returned") =>
           \E r \in table :
               /\ r.id = RaceId
               /\ \E w \in Calls :
                     Contents(r) = Contents(Row(writers[w].args.query, writers[w].args.year,
                                                writers[w].args.result))

\* C26 witness: both calls saw no row, one inserted and the other's insert was
\* rejected and caught; the row is the first call's.
LostInsertWitness ==
    /\ DOMAIN writers = Calls
    /\ \A w \in Calls : writers[w].pc = "returned" /\ ~writers[w].existing
    /\ writers[2].caught
    /\ writers[1].args.result # writers[2].args.result
    /\ \E r \in table :
          Contents(r) = Contents(Row(writers[1].args.query, writers[1].args.year,
                                     writers[1].args.result))

(* ================== ChatInterface: the active request key =============== *)

\* C27: a new-query request that holds the active key and stays in flight over
\* a step that starts no new query still holds the key after the step, so that
\* the same submission made then is suppressed.
ActiveKeyHeldInFlight ==
    [][\A i \in 1..Len(inflight) :
          LET req == inflight[i]
              key == SearchKey(req.query, 0, req.filters)
          IN (/\ IsNewQuery(req)
              /\ activeSearchRef = key
              /\ \E j \in 1..Len(inflight') : inflight'[j] = req
              /\ \A j \in 1..Len(Sent(S')) : ~IsNewQuery(Sent(S')[j]))
             => activeSearchRef' = key]_vars

\* C28: the initialisation from a URL that carries a query and filter
\* parameters sends exactly one /api/search request.
InitialisationSendsOnce ==
    [][(/\ ~hasInitialized /\ hasInitialized'
        /\ currentQuery' # << >>
        /\ filters' # 0)
       => netCount' = 1]_vars

(* ================== MovieCard: metadata on hover ======================== *)

\* Times the card mounts.
MaxMounts == 2

MediaTypes == {"movie", "tv"}
\* What /api/tmdb/movie/:id or /api/tmdb/tv/:id answers with.
Details(type) == <<"details", type>>

\* The card's state as one value.
C == [isHovered |-> isHovered, metadata |-> metadata,
      isLoadingMetadata |-> isLoadingMetadata, metadataFetched |-> metadataFetched,
      details |-> details, liveEffect |-> liveEffect, effectDeps |-> effectDeps,
      mount |-> mounts]

CommitCard(c) ==
    /\ isHovered' = c.isHovered
    /\ metadata' = c.metadata
    /\ isLoadingMetadata' = c.isLoadingMetadata
    /\ metadataFetched' = c.metadataFetched
    /\ details' = c.details
    /\ liveEffect' = c.liveEffect
    /\ effectDeps' = c.effectDeps

\* [isHovered, movie.media_type, movie.id, metadataFetched, isLoadingMetadata];
\* the movie does not change.
CardDeps(c) == <<c.isHovered, c.metadataFetched, c.isLoadingMetadata>>

\* return () => { isMounted = false } of the previous effect run.
Cleanup(c) ==
    IF c.liveEffect # 0
    THEN [c EXCEPT !.details[c.liveEffect].isMounted = FALSE, !.liveEffect = 0]
    ELSE c

\* The effect body up to the await of fetch.
EffectBody(c) ==
    IF c.isHovered /\ ~c.metadataFetched /\ ~c.isLoadingMetadata
    THEN [c EXCEPT !.details = Append(@, [isMounted |-> TRUE, mount |-> c.mount]),
                   !.liveEffect = Len(c.details) + 1,
                   !.isLoadingMetadata = TRUE]
    ELSE c

\* One run of the effect after a render with changed dependencies.
RunEffect(c) == EffectBody(Cleanup([c EXCEPT !.effectDeps = CardDeps(c)]))

\* Renders until the dependencies are the ones the effect last ran with.
RECURSIVE RenderCard(_)
RenderCard(c) == IF CardDeps(c) # c.effectDeps THEN RenderCard(RunEffect(c)) ELSE c

\* The card mounts: the useState initial values, and the effect's first run.
MountCard(type) ==
    /\ ~cardAlive
    /\ mounts < MaxMounts
    /\ cardAlive' = TRUE
    /\ mounts' = mounts + 1
    /\ mediaType' = type
    /\ hoverTimeout' = FALSE
    /\ CommitCard(RenderCard(RunEffect([C EXCEPT !.isHovered = FALSE,
                                                 !.metadata = Null,
                                                 !.isLoadingMetadata = FALSE,
                                                 !.metadataFetched = FALSE,
                                                 !.liveEffect = 0,
                                                 !.mount = mounts + 1])))
    /\ UNCHANGED lastDetails
    /\ UNCHANGED besideMovieCard

\* The card unmounts: the cleanup of the current effect run.
UnmountCard ==
    /\ cardAlive
    /\ cardAlive' = FALSE
    /\ hoverTimeout' = FALSE
    /\ CommitCard([Cleanup(C) EXCEPT !.isHovered = FALSE])
    /\ UNCHANGED <<mediaType, mounts, lastDetails>>
    /\ UNCHANGED besideMovieCard

\* handleMouseEnter
MouseEnter ==
    /\ cardAlive /\ ~hoverTimeout /\ ~isHovered
    /\ hoverTimeout' = TRUE
    /\ UNCHANGED <<cardAlive, mediaType, isHovered, metadata, isLoadingMetadata,
                   metadataFetched, details, liveEffect, effectDeps, mounts, lastDetails>>
    /\ UNCHANGED besideMovieCard

\* The 400ms timer fires: onHover(true).
HoverTimeoutFires ==
    /\ cardAlive /\ hoverTimeout
    /\ hoverTimeout' = FALSE
    /\ CommitCard(RenderCard([C EXCEPT !.isHovered = TRUE]))
    /\ UNCHANGED <<cardAlive, mediaType, mounts, lastDetails>>
    /\ UNCHANGED besideMovieCard

\* handleMouseLeave
MouseLeave ==
    /\ cardAlive /\ (hoverTimeout \/ isHovered)
    /\ hoverTimeout' = FALSE
    /\ CommitCard(RenderCard([C EXCEPT !.isHovered = FALSE]))
    /\ UNCHANGED <<cardAlive, mediaType, mounts, lastDetails>>
    /\ UNCHANGED besideMovieCard

\* fetch(endpoint) of request i settles: ok with the details, or not ok or
\* rejected.
DetailsArrive(i, ok) ==
    /\ i \in 1..Len(details)
    /\ LET request == details[i]
           c1 == [C EXCEPT !.details = Remove(@, i),
                           !.liveEffect = IF @ = i THEN 0 ELSE IF @ > i THEN @ - 1 ELSE @]
           c2 == IF ok /\ request.isMounted
                 THEN [c1 EXCEPT !.metadata = Details(mediaType), !.metadataFetched = TRUE]
                 ELSE c1
           c3 == IF request.isMounted THEN [c2 EXCEPT !.isLoadingMetadata = FALSE] ELSE c2
       IN /\ CommitCard(RenderCard(c3))
          /\ lastDetails' = [outcome |-> IF ok THEN "ok" ELSE "failed", mount |-> request.mount]
    /\ UNCHANGED <<cardAlive, mediaType, hoverTimeout, mounts>>
    /\ UNCHANGED besideMovieCard

\* Every request is answered.
DetailsSettle == \E i \in 1..MaxMounts, ok \in BOOLEAN : DetailsArrive(i, ok)

NextMovieCard ==
    \/ \E type \in MediaTypes : MountCard(type)
    \/ UnmountCard
    \/ MouseEnter
    \/ HoverTimeoutFires
    \/ MouseLeave
    \/ DetailsSettle

InitMovieCard == Init /\ ~intersecting

SpecMovieCard == InitMovieCard /\ [][NextMovieCard]_vars /\ WF_vars(DetailsSettle)

\* A request of the current mount is outstanding.
Fetching == \E i \in 1..Len(details) : details[i].mount = mounts

\* C29: a details response that is ok and arrives while the card that sent it
\* is still mounted is stored; and while the card stays mounted and hovered, a
\* request it has sent leads to metadataFetched being true and
\* isLoadingMetadata false, unless the request fails.
MetadataStoredAfterHover ==
    /\ [][(/\ lastDetails' # lastDetails
           /\ lastDetails'.outcome = "ok"
           /\ lastDetails'.mount = mounts
           /\ cardAlive)
          => metadataFetched']_vars
    /\ [](Fetching /\ cardAlive /\ isHovered
            => <>(\/ metadataFetched /\ ~isLoadingMetadata
                  \/ ~cardAlive
                  \/ ~isHovered
                  \/ lastDetails = [outcome |-> "failed", mount |-> mounts]))

(* ================== getCachedTMDBResult: the binding ==================== *)

\* C30: the record a getCachedTMDBResult(q, y) call returns comes from a row
\* stored under exactly the normalized q and the year y (no year for a call
\* without a year).
ExactBinding ==
    [][(got' # got /\ got'.result # Absent) =>
          \A r \in table : r.id = got'.result.id =>
              /\ r.searchQuery = normalizeQuery(got'.query)
              /\ r.searchYear = got'.year]_vars

====
